---- MODULE Spec2Model ----
(***************************************************************************)
(* Model of mBuild tutorial 05, "Creating Flexible Classes": the           *)
(* constructors Alkane.__init__ and CMIM.__init__ and the Imidazole        *)
(* class, together with the mbuild operations they call (Compound(),       *)
(* H(), CH2(), mb.load, mb.Port, mb.force_overlap, Compound.add,           *)
(* Compound.particles).                                                    *)
(*                                                                         *)
(* Geometry is kept in a plane with integer coordinates, one unit being    *)
(* 0.01 nm; every port of the notebook points along +y or -y, so a port's  *)
(* orientation is the sign of its y direction and the rigid motion of      *)
(* force_overlap is a translation, composed with a half turn when the two  *)
(* ports point the same way.                                               *)
(***************************************************************************)
EXTENDS Integers, Sequences, FiniteSets, TLC

\* Largest chain_length argument explored.
MaxChain == 4
\* Largest number of atoms that utils/cmim.mol2 may hold.
MaxMol2Atoms == 5
\* How many times a caller adds to a finished compound.
MaxClientAdds == 1

Classes == {"Alkane", "CMIM"}
\* chain_length is not validated by either constructor: 0 and -1 are inputs too.
ChainLengths == (-1)..MaxChain
\* self[3] has to exist (the notebook: "the 4th entry in the datafile").
Mol2Sizes == 4..MaxMol2Atoms

VARIABLES chain_length, pc, loc, heap, mol2_atoms

vars == <<chain_length, pc, loc, heap, mol2_atoms>>

None == 0

(***************************************************************************)
(* The object graph of one construction.  Fragments (Compounds), particles *)
(* and ports are numbered in creation order.                               *)
(***************************************************************************)
EmptyHeap ==
    [kind     |-> <<>>,   \* fragment -> class name
     parent   |-> <<>>,   \* fragment -> owning fragment, or None
     children |-> <<>>,   \* fragment -> its children, in insertion order
     labels   |-> <<>>,   \* label entries [owner, base, idx, child]
     elem     |-> <<>>,   \* particle -> element
     powner   |-> <<>>,   \* particle -> the fragment holding it
     pos      |-> <<>>,   \* particle -> <<x, y>>
     ports    |-> <<>>,   \* port -> [frag, label, anchor, orient, sep, avail, uses]
     bonds    |-> {},     \* bonds made by force_overlap: {particle, particle}
     log      |-> <<>>,   \* force_overlap and add calls, in order
     err      |-> "none"]

\* mb.Compound(): a fresh compound with no parent, children or labels.
Compound(h, k) ==
    [h EXCEPT !.kind = Append(@, k),
              !.parent = Append(@, None),
              !.children = Append(@, <<>>)]

NewParticle(h, f, e, xy) ==
    [h EXCEPT !.elem = Append(@, e),
              !.powner = Append(@, f),
              !.pos = Append(@, xy)]

\* self.add(mb.Port(anchor=a, orientation=o, separation=s), label)
NewPort(h, f, label, a, o, s) ==
    [h EXCEPT !.ports = Append(@, [frag |-> f, label |-> label, anchor |-> a,
                                   orient |-> o, sep |-> s,
                                   avail |-> TRUE, uses |-> 0])]

\* mbuild.lib.atoms.H: one hydrogen with a port 'up'.
H(h) ==
    LET f == Len(h.kind) + 1
        p == Len(h.elem) + 1
    IN NewPort(NewParticle(Compound(h, "H"), f, "H", <<0, 0>>), f, "up", p, 1, 7)

\* mbuild.lib.moieties.CH2: a carbon, two hydrogens, ports 'up' and 'down'
\* anchored on the carbon.
CH2(h) ==
    LET f == Len(h.kind) + 1
        c == Len(h.elem) + 1
        h1 == NewParticle(Compound(h, "CH2"), f, "C", <<0, 0>>)
        h2 == NewParticle(h1, f, "H", <<-9, 0>>)
        h3 == NewParticle(h2, f, "H", <<9, 0>>)
    IN NewPort(NewPort(h3, f, "up", c, 1, 7), f, "down", c, -1, 7)

RECURSIVE LoadAtoms(_, _, _, _)
\* mb.load(path, compound=self): the atoms of the file become particles of f.
LoadAtoms(h, f, k, n) ==
    IF k >= n THEN h
    ELSE LoadAtoms(NewParticle(h, f, IF k = 3 THEN "N" ELSE "X", <<k, 0>>), f, k + 1, n)

\* Imidazole.__init__: load the file, then put port 'up' on self[3].
Imidazole(h, natoms) ==
    LET f == Len(h.kind) + 1
        first == Len(h.elem) + 1
        loaded == LoadAtoms(Compound(h, "Imidazole"), f, 0, natoms)
        C_tail == first + 3
    IN NewPort(loaded, f, "up", C_tail, 1, 4)

\* compound[label] for a port label: the port, while it is still attached.
GetPort(h, f, label) ==
    LET ps == {i \in DOMAIN h.ports :
                  h.ports[i].frag = f /\ h.ports[i].label = label /\ h.ports[i].avail}
    IN IF ps = {} THEN None ELSE CHOOSE i \in ps : TRUE

RECURSIVE Subtree(_, _)
\* The fragments of the subtree rooted at f.
Subtree(h, f) ==
    {f} \cup UNION {Subtree(h, h.children[f][j]) : j \in DOMAIN h.children[f]}

\* The entry a call leaves in the call log.
FuseEntry(h, move_this, from_p, to_p) ==
    [op |-> "force_overlap", a |-> move_this,
     aport |-> IF from_p = None THEN "?" ELSE h.ports[from_p].label,
     b |-> IF to_p = None THEN None ELSE h.ports[to_p].frag,
     bport |-> IF to_p = None THEN "?" ELSE h.ports[to_p].label,
     base |-> "", idx |-> -1]

AddEntry(self, child, base, idx) ==
    [op |-> "add", a |-> child, aport |-> "", b |-> self, bport |-> "",
     base |-> base, idx |-> idx]

\* mb.force_overlap(move_this, from_positions, to_positions) for two ports:
\* move_this (its whole subtree) is moved rigidly so that the port
\* from_positions lies on the port to_positions, facing it; the two anchors
\* are bonded and both ports are removed from their compounds.  Looking up a
\* port that is no longer attached fails before anything is moved.
force_overlap(h, move_this, from_p, to_p) ==
    IF from_p = None \/ to_p = None
    THEN [h EXCEPT !.err = "PortUnavailableError",
                   !.log = Append(@, FuseEntry(h, move_this, from_p, to_p))]
    ELSE LET m == h.ports[from_p]
             t == h.ports[to_p]
             s == IF m.orient = t.orient THEN -1 ELSE 1
             am == h.pos[m.anchor]
             ta == h.pos[t.anchor]
             gap == t.sep + m.sep
             dx == ta[1]
             dy == ta[2] + t.orient * gap
             sub == Subtree(h, move_this)
             T(xy) == <<s * (xy[1] - am[1]) + dx, s * (xy[2] - am[2]) + dy>>
         IN [h EXCEPT
               !.pos = [i \in DOMAIN h.pos |->
                           IF h.powner[i] \in sub THEN T(h.pos[i]) ELSE h.pos[i]],
               !.ports = [i \in DOMAIN h.ports |->
                           LET q == h.ports[i]
                               turned == IF q.frag \in sub
                                         THEN [q EXCEPT !.orient = s * @] ELSE q
                           IN IF i \in {from_p, to_p}
                              THEN [turned EXCEPT !.avail = FALSE, !.uses = @ + 1]
                              ELSE turned],
               !.bonds = @ \cup {{m.anchor, t.anchor}},
               !.log = Append(@, FuseEntry(h, move_this, from_p, to_p))]

\* Number of children already filed under the list label base of self.
LabelCount(h, self, base) ==
    Cardinality({i \in DOMAIN h.labels :
                    /\ h.labels[i].owner = self
                    /\ h.labels[i].base = base
                    /\ h.labels[i].idx >= 0})

\* Does the resolved label <<base, idx>> already exist in self.labels?  A
\* list label 'base[$]' also occupies the plain key 'base'.
LabelExists(h, self, base, idx) ==
    \E i \in DOMAIN h.labels :
        /\ h.labels[i].owner = self
        /\ h.labels[i].base = base
        /\ (h.labels[i].idx = idx \/ idx = -1)

\* Compound.add(new_child, label): a label ending in '[$]' is resolved to
\* base[count], count being the length of the list kept under base.  A child
\* that already has a parent, or a label that already exists, is refused.
add(h, self, new_child, base, templated) ==
    LET idx == IF templated THEN LabelCount(h, self, base) ELSE -1
        logged == [h EXCEPT !.log = Append(@, AddEntry(self, new_child, base, idx))]
    IN IF h.parent[new_child] # None
       THEN [logged EXCEPT !.err = "AlreadyHasParentError"]
       ELSE IF LabelExists(h, self, base, idx)
       THEN [logged EXCEPT !.err = "DuplicateLabelError"]
       ELSE [logged EXCEPT
               !.children[self] = Append(@, new_child),
               !.parent[new_child] = self,
               !.labels = Append(@, [owner |-> self, base |-> base,
                                     idx |-> idx, child |-> new_child])]

\* The particles a fragment holds directly, in creation order.
RECURSIVE OwnParticles(_, _, _)
OwnParticles(h, f, k) ==
    IF k > Len(h.elem) THEN <<>>
    ELSE (IF h.powner[k] = f THEN <<k>> ELSE <<>>) \o OwnParticles(h, f, k + 1)

RECURSIVE Particles(_, _)
RECURSIVE ParticlesOfChildren(_, _, _)
\* Compound.particles(): depth-first traversal of the subtree of f.
Particles(h, f) ==
    OwnParticles(h, f, 1) \o ParticlesOfChildren(h, f, 1)

ParticlesOfChildren(h, f, j) ==
    IF j > Len(h.children[f]) THEN <<>>
    ELSE Particles(h, h.children[f][j]) \o ParticlesOfChildren(h, f, j + 1)

(***************************************************************************)
(* The two constructors.  pc names the statement about to be executed by   *)
(* the line it has in Alkane.__init__ (cell lines 57..77); CMIM.__init__   *)
(* has the same statements 103 lines further down (160..180).  "done" is   *)
(* reached when __init__ returns and "raised" when a call made by it       *)
(* raises (the exception leaves __init__).                                 *)
(***************************************************************************)
NoLocals ==
    [self |-> None, hydrogen |-> None, last_unit |-> None,
     current_unit |-> None, imidazole |-> None, i |-> 0]

Init ==
    /\ chain_length \in [Classes -> ChainLengths]
    /\ mol2_atoms \in Mol2Sizes
    /\ pc = [c \in Classes |-> "L57"]
    /\ loc = [c \in Classes |-> NoLocals]
    /\ heap = [c \in Classes |-> EmptyHeap]

\* The fragment the next constructor call creates.
Fresh(c) == Len(heap[c].kind) + 1

\* One statement of the constructor of class c: the heap after it, the
\* locals after it, and the line that follows when nothing was raised.
Step(c, from, h, l, to) ==
    /\ pc[c] = from
    /\ heap' = [heap EXCEPT ![c] = h]
    /\ loc' = [loc EXCEPT ![c] = l]
    /\ pc' = [pc EXCEPT ![c] = IF h.err # "none" THEN "raised" ELSE to]
    /\ UNCHANGED <<chain_length, mol2_atoms>>

---------------------------------------------------------------------------
\* class Alkane(mb.Compound)

\* super(Alkane, self).__init__()
Alkane_Super ==
    Step("Alkane", "L57", Compound(heap["Alkane"], "Alkane"),
         [loc["Alkane"] EXCEPT !.self = Fresh("Alkane")], "L59")

\* hydrogen = H()
Alkane_Hydrogen ==
    Step("Alkane", "L59", H(heap["Alkane"]),
         [loc["Alkane"] EXCEPT !.hydrogen = Fresh("Alkane")], "L60")

\* last_unit = CH2()
Alkane_FirstUnit ==
    Step("Alkane", "L60", CH2(heap["Alkane"]),
         [loc["Alkane"] EXCEPT !.last_unit = Fresh("Alkane")], "L61")

\* mb.force_overlap(move_this=hydrogen, from_positions=hydrogen['up'],
\*                  to_positions=last_unit['up'])
Alkane_OverlapUpCap ==
    LET h == heap["Alkane"]
        l == loc["Alkane"]
    IN Step("Alkane", "L61",
            force_overlap(h, l.hydrogen, GetPort(h, l.hydrogen, "up"),
                          GetPort(h, l.last_unit, "up")),
            l, "L64")

\* self.add(last_unit, label='ch2[$]')
Alkane_AddFirstUnit ==
    LET h == heap["Alkane"]
        l == loc["Alkane"]
    IN Step("Alkane", "L64", add(h, l.self, l.last_unit, "ch2", TRUE), l, "L65")

\* self.add(hydrogen, label='up-cap')
Alkane_AddUpCap ==
    LET h == heap["Alkane"]
        l == loc["Alkane"]
    IN Step("Alkane", "L65", add(h, l.self, l.hydrogen, "up-cap", FALSE), l, "L66")

\* Variant: the loop written as range(chain_length).
Alkane_For_RangeN ==
    LET l == loc["Alkane"]
    IN IF l.i < chain_length["Alkane"]
       THEN Step("Alkane", "L66", heap["Alkane"], [l EXCEPT !.i = @ + 1], "L67")
       ELSE Step("Alkane", "L66", heap["Alkane"], l, "L73")

\* for _ in range(chain_length - 1):
Alkane_For ==
    LET l == loc["Alkane"]
    IN IF l.i < chain_length["Alkane"] - 1
       THEN Step("Alkane", "L66", heap["Alkane"], [l EXCEPT !.i = @ + 1], "L67")
       ELSE Step("Alkane", "L66", heap["Alkane"], l, "L73")

\* current_unit = CH2()
Alkane_CurrentUnit ==
    Step("Alkane", "L67", CH2(heap["Alkane"]),
         [loc["Alkane"] EXCEPT !.current_unit = Fresh("Alkane")], "L68")

\* Variant: from_positions=current_unit['down'].
Alkane_OverlapUnit_FromDown ==
    LET h == heap["Alkane"]
        l == loc["Alkane"]
    IN Step("Alkane", "L68",
            force_overlap(h, l.current_unit, GetPort(h, l.current_unit, "down"),
                          GetPort(h, l.last_unit, "down")),
            l, "L71")

\* Variant: move_this=last_unit.
Alkane_OverlapUnit_MovesLast ==
    LET h == heap["Alkane"]
        l == loc["Alkane"]
    IN Step("Alkane", "L68",
            force_overlap(h, l.last_unit, GetPort(h, l.current_unit, "up"),
                          GetPort(h, l.last_unit, "down")),
            l, "L71")

\* mb.force_overlap(move_this=current_unit, from_positions=current_unit['up'],
\*                  to_positions=last_unit['down'])
Alkane_OverlapUnit ==
    LET h == heap["Alkane"]
        l == loc["Alkane"]
    IN Step("Alkane", "L68",
            force_overlap(h, l.current_unit, GetPort(h, l.current_unit, "up"),
                          GetPort(h, l.last_unit, "down")),
            l, "L71")

\* Variant: self.add(last_unit, label='ch2[$]').
Alkane_AddUnit_LastUnit ==
    LET h == heap["Alkane"]
        l == loc["Alkane"]
    IN Step("Alkane", "L71", add(h, l.self, l.last_unit, "ch2", TRUE), l, "L72")

\* self.add(current_unit, label='ch2[$]')
Alkane_AddUnit ==
    LET h == heap["Alkane"]
        l == loc["Alkane"]
    IN Step("Alkane", "L71", add(h, l.self, l.current_unit, "ch2", TRUE), l, "L72")

\* Variant: last_unit is not advanced.
Alkane_Advance_Forgotten ==
    Step("Alkane", "L72", heap["Alkane"], loc["Alkane"], "L66")

\* last_unit=current_unit
Alkane_Advance ==
    Step("Alkane", "L72", heap["Alkane"],
         [loc["Alkane"] EXCEPT !.last_unit = loc["Alkane"].current_unit], "L66")

\* hydrogen = H()
Alkane_DownCap ==
    Step("Alkane", "L73", H(heap["Alkane"]),
         [loc["Alkane"] EXCEPT !.hydrogen = Fresh("Alkane")], "L74")

\* Variant: the terminal cap is added without being overlapped first.
Alkane_OverlapDownCap_Skipped ==
    Step("Alkane", "L74", heap["Alkane"], loc["Alkane"], "L77")

\* mb.force_overlap(move_this=hydrogen, from_positions=hydrogen['up'],
\*                  to_positions=last_unit['down'])
Alkane_OverlapDownCap ==
    LET h == heap["Alkane"]
        l == loc["Alkane"]
    IN Step("Alkane", "L74",
            force_overlap(h, l.hydrogen, GetPort(h, l.hydrogen, "up"),
                          GetPort(h, l.last_unit, "down")),
            l, "L77")

\* Variant: self.add(hydrogen, label='up-cap').
Alkane_AddDownCap_UpCapLabel ==
    LET h == heap["Alkane"]
        l == loc["Alkane"]
    IN Step("Alkane", "L77", add(h, l.self, l.hydrogen, "up-cap", FALSE), l, "done")

\* self.add(hydrogen, label='down-cap')
Alkane_AddDownCap ==
    LET h == heap["Alkane"]
        l == loc["Alkane"]
    IN Step("Alkane", "L77", add(h, l.self, l.hydrogen, "down-cap", FALSE), l, "done")

---------------------------------------------------------------------------
\* class CMIM(mb.Compound)

\* super(CMIM, self).__init__()
CMIM_Super ==
    Step("CMIM", "L57", Compound(heap["CMIM"], "CMIM"),
         [loc["CMIM"] EXCEPT !.self = Fresh("CMIM")], "L59")

\* hydrogen = H()
CMIM_Hydrogen ==
    Step("CMIM", "L59", H(heap["CMIM"]),
         [loc["CMIM"] EXCEPT !.hydrogen = Fresh("CMIM")], "L60")

\* last_unit = CH2()
CMIM_FirstUnit ==
    Step("CMIM", "L60", CH2(heap["CMIM"]),
         [loc["CMIM"] EXCEPT !.last_unit = Fresh("CMIM")], "L61")

\* mb.force_overlap(move_this=hydrogen, from_positions=hydrogen['up'],
\*                  to_positions=last_unit['up'])
CMIM_OverlapUpCap ==
    LET h == heap["CMIM"]
        l == loc["CMIM"]
    IN Step("CMIM", "L61",
            force_overlap(h, l.hydrogen, GetPort(h, l.hydrogen, "up"),
                          GetPort(h, l.last_unit, "up")),
            l, "L64")

\* self.add(last_unit, label='ch2[$]')
CMIM_AddFirstUnit ==
    LET h == heap["CMIM"]
        l == loc["CMIM"]
    IN Step("CMIM", "L64", add(h, l.self, l.last_unit, "ch2", TRUE), l, "L65")

\* self.add(hydrogen, label='up-cap')
CMIM_AddUpCap ==
    LET h == heap["CMIM"]
        l == loc["CMIM"]
    IN Step("CMIM", "L65", add(h, l.self, l.hydrogen, "up-cap", FALSE), l, "L66")

\* for _ in range(chain_length - 1):
CMIM_For ==
    LET l == loc["CMIM"]
    IN IF l.i < chain_length["CMIM"] - 1
       THEN Step("CMIM", "L66", heap["CMIM"], [l EXCEPT !.i = @ + 1], "L67")
       ELSE Step("CMIM", "L66", heap["CMIM"], l, "L73")

\* current_unit = CH2()
CMIM_CurrentUnit ==
    Step("CMIM", "L67", CH2(heap["CMIM"]),
         [loc["CMIM"] EXCEPT !.current_unit = Fresh("CMIM")], "L68")

\* mb.force_overlap(move_this=current_unit, from_positions=current_unit['up'],
\*                  to_positions=last_unit['down'])
CMIM_OverlapUnit ==
    LET h == heap["CMIM"]
        l == loc["CMIM"]
    IN Step("CMIM", "L68",
            force_overlap(h, l.current_unit, GetPort(h, l.current_unit, "up"),
                          GetPort(h, l.last_unit, "down")),
            l, "L71")

\* self.add(current_unit, label='ch2[$]')
CMIM_AddUnit ==
    LET h == heap["CMIM"]
        l == loc["CMIM"]
    IN Step("CMIM", "L71", add(h, l.self, l.current_unit, "ch2", TRUE), l, "L72")

\* last_unit=current_unit
CMIM_Advance ==
    Step("CMIM", "L72", heap["CMIM"],
         [loc["CMIM"] EXCEPT !.last_unit = loc["CMIM"].current_unit], "L66")

\* Variant: imidazole = H().
CMIM_DownCap_Hydrogen ==
    Step("CMIM", "L73", H(heap["CMIM"]),
         [loc["CMIM"] EXCEPT !.imidazole = Fresh("CMIM")], "L74")

\* imidazole = Imidazole()
CMIM_DownCap ==
    Step("CMIM", "L73", Imidazole(heap["CMIM"], mol2_atoms),
         [loc["CMIM"] EXCEPT !.imidazole = Fresh("CMIM")], "L74")

\* mb.force_overlap(move_this=imidazole, from_positions=imidazole['up'],
\*                  to_positions=last_unit['down'])
CMIM_OverlapDownCap ==
    LET h == heap["CMIM"]
        l == loc["CMIM"]
    IN Step("CMIM", "L74",
            force_overlap(h, l.imidazole, GetPort(h, l.imidazole, "up"),
                          GetPort(h, l.last_unit, "down")),
            l, "L77")

\* self.add(imidazole, label='down-cap')
CMIM_AddDownCap ==
    LET h == heap["CMIM"]
        l == loc["CMIM"]
    IN Step("CMIM", "L77", add(h, l.self, l.imidazole, "down-cap", FALSE), l, "done")

---------------------------------------------------------------------------
Next ==
    \/ Alkane_Super \/ Alkane_Hydrogen \/ Alkane_FirstUnit \/ Alkane_OverlapUpCap
    \/ Alkane_AddFirstUnit \/ Alkane_AddUpCap \/ Alkane_For \/ Alkane_CurrentUnit
    \/ Alkane_OverlapUnit \/ Alkane_AddUnit \/ Alkane_Advance \/ Alkane_DownCap
    \/ Alkane_OverlapDownCap \/ Alkane_AddDownCap
    \/ CMIM_Super \/ CMIM_Hydrogen \/ CMIM_FirstUnit \/ CMIM_OverlapUpCap
    \/ CMIM_AddFirstUnit \/ CMIM_AddUpCap \/ CMIM_For \/ CMIM_CurrentUnit
    \/ CMIM_OverlapUnit \/ CMIM_AddUnit \/ CMIM_Advance \/ CMIM_DownCap
    \/ CMIM_OverlapDownCap \/ CMIM_AddDownCap

Spec == Init /\ [][Next]_vars

\* A caller of the notebook using a finished compound: mb.Compound.add is
\* inherited by Alkane and CMIM and stays callable after __init__ returned.
ClientAdd ==
    \E c \in Classes :
        LET h == heap[c]
            l == loc[c]
            extra == Len(h.kind) + 1
        IN /\ pc[c] = "done"
           /\ LabelCount(h, l.self, "extra") < MaxClientAdds
           /\ heap' = [heap EXCEPT ![c] = add(H(h), l.self, extra, "extra", TRUE)]
           /\ UNCHANGED <<chain_length, mol2_atoms, pc, loc>>

NextClient == Next \/ ClientAdd

SpecClient == Init /\ [][NextClient]_vars

(***************************************************************************)
(* Vocabulary of the properties.                                           *)
(***************************************************************************)
Range(q) == {q[i] : i \in DOMAIN q}

Valid(c) == chain_length[c] >= 1

Finished(c) == pc[c] = "done"

\* The children of self filed under a label base, in the order of their index.
Labelled(h, self, base) ==
    {i \in DOMAIN h.labels : h.labels[i].owner = self /\ h.labels[i].base = base}

\* The k-th fragment of a class created by the constructor (k from 0).
NthOfKind(h, k, kd) ==
    LET fs == {f \in DOMAIN h.kind : h.kind[f] = kd}
    IN IF \E f \in fs : Cardinality({g \in fs : g < f}) = k
       THEN CHOOSE f \in fs : Cardinality({g \in fs : g < f}) = k
       ELSE None

\* The child of self that carries the resolved label base[idx].
Child(h, self, base, idx) ==
    LET es == {i \in Labelled(h, self, base) : h.labels[i].idx = idx}
    IN IF es = {} THEN None ELSE h.labels[CHOOSE i \in es : TRUE].child

\* The ports that belong to the assembly rooted at self.
AssemblyPorts(h, self) ==
    {i \in DOMAIN h.ports : h.ports[i].frag \in Subtree(h, self)}

FragPort(h, f, label) ==
    {i \in DOMAIN h.ports : h.ports[i].frag = f /\ h.ports[i].label = label}

Fusions(h) == SelectSeq(h.log, LAMBDA e : e.op = "force_overlap")

Adds(h) == SelectSeq(h.log, LAMBDA e : e.op = "add")

NoDuplicates(q) == Cardinality(Range(q)) = Len(q)

\* Number of particles in the two caps of a finished assembly.
CapParticles(h, self) ==
    Len(Particles(h, Child(h, self, "up-cap", -1)))
    + Len(Particles(h, Child(h, self, "down-cap", -1)))

---------------------------------------------------------------------------
\* C1 (as stated): a finished Alkane of chain length N >= 1 holds exactly
\* 2*N particles plus those of its two caps, none of them twice.
C1_TwoPerUnit ==
    (Finished("Alkane") /\ Valid("Alkane")) =>
        LET h == heap["Alkane"]
            self == loc["Alkane"].self
            ps == Particles(h, self)
        IN /\ Len(ps) = 2 * chain_length["Alkane"] + CapParticles(h, self)
           /\ NoDuplicates(ps)

\* C1 (amended): a finished Alkane of chain length N >= 1 holds exactly
\* 3*N particles (a carbon and two hydrogens per CH2 unit) plus those of its
\* two caps, and no particle occurs twice in the traversal.
C1_ThreePerUnit ==
    (Finished("Alkane") /\ Valid("Alkane")) =>
        LET h == heap["Alkane"]
            self == loc["Alkane"].self
            ps == Particles(h, self)
        IN /\ Len(ps) = 3 * chain_length["Alkane"] + CapParticles(h, self)
           /\ CapParticles(h, self) = 2
           /\ NoDuplicates(ps)
           /\ Range(ps) = DOMAIN h.elem

C1_Witness ==
    /\ Finished("Alkane")
    /\ chain_length["Alkane"] = 3
    /\ Len(Particles(heap["Alkane"], loc["Alkane"].self)) = 11

---------------------------------------------------------------------------
\* C2: once the construction of an Alkane of chain length N >= 1 has
\* finished, the assembly holds exactly N chain units and exactly 2 caps,
\* every chain unit has its 'up' and its 'down' port consumed, and no port
\* of the assembly is still available.
C2_FullyConnected ==
    (Finished("Alkane") /\ Valid("Alkane")) =>
        LET h == heap["Alkane"]
            self == loc["Alkane"].self
            N == chain_length["Alkane"]
            units == {f \in Range(h.children[self]) : h.kind[f] = "CH2"}
            caps == {f \in Range(h.children[self]) : h.kind[f] # "CH2"}
        IN /\ Cardinality(units) = N
           /\ Cardinality(Labelled(h, self, "ch2")) = N
           /\ Cardinality(caps) = 2
           /\ caps = {Child(h, self, "up-cap", -1), Child(h, self, "down-cap", -1)}
           /\ Len(h.children[self]) = N + 2
           /\ \A u \in units : \A lb \in {"up", "down"} :
                 /\ FragPort(h, u, lb) # {}
                 /\ \A i \in FragPort(h, u, lb) :
                       ~h.ports[i].avail /\ h.ports[i].uses = 1
           /\ \A i \in AssemblyPorts(h, self) : ~h.ports[i].avail
           /\ AssemblyPorts(h, self) = DOMAIN h.ports

\* ethane = Alkane(chain_length=2), finished
C2_Witness ==
    /\ Finished("Alkane")
    /\ chain_length["Alkane"] = 2
    /\ Len(heap["Alkane"].children[loc["Alkane"].self]) = 4
    /\ \A i \in DOMAIN heap["Alkane"].ports : ~heap["Alkane"].ports[i].avail

---------------------------------------------------------------------------
\* C3: a chain length below 1 is rejected before any fragment is created,
\* fused or added, and no assembly is produced for it.
C3_InvalidLengthRejected ==
    \A c \in Classes :
        chain_length[c] < 1 =>
            /\ pc[c] # "done"
            /\ heap[c].log = <<>>
            /\ \A f \in DOMAIN heap[c].kind : heap[c].kind[f] = c

---------------------------------------------------------------------------
\* The builder states of the design: NotStarted before __init__ runs,
\* BuildingChain while the first cap and the chain units are placed, Capped
\* while the terminal cap is attached, Done when __init__ has returned.
Phase(c) ==
    CASE pc[c] = "L57" -> 0
      [] pc[c] \in {"L59", "L60", "L61", "L64", "L65", "L66",
                    "L67", "L68", "L71", "L72"} -> 1
      [] pc[c] \in {"L73", "L74", "L77"} -> 2
      [] pc[c] = "done" -> 3
      [] OTHER -> 4

\* What a finished assembly consists of: its fragments, labels, ports, bonds.
Assembly(h, self) ==
    [children |-> h.children[self],
     labels |-> h.labels,
     ports |-> {h.ports[i] : i \in AssemblyPorts(h, self)},
     bonds |-> h.bonds]

\* C4: for a chain length N >= 1 the builder goes NotStarted, BuildingChain, Capped, Done in that
\* order and never leaves Done; once it is in Done every further add or fuse
\* fails with AlreadyFinalizedError and leaves the assembly unchanged.
C4_LinearThenImmutable ==
    [][\A c \in Classes :
          Valid(c) =>
          /\ Phase(c)' \in {Phase(c), Phase(c) + 1}
          /\ Phase(c) = 3 =>
                /\ Phase(c)' = 3
                /\ Assembly(heap[c], loc[c].self)' = Assembly(heap[c], loc[c].self)
                /\ heap'[c] # heap[c] => heap'[c].err = "AlreadyFinalizedError"]_vars

---------------------------------------------------------------------------
\* The ports the statement about to run hands to force_overlap.
PortsAboutToFuse(c) ==
    LET h == heap[c]
        l == loc[c]
        down == IF c = "CMIM" THEN l.imidazole ELSE l.hydrogen
    IN CASE pc[c] = "L61" -> <<GetPort(h, l.hydrogen, "up"), GetPort(h, l.last_unit, "up")>>
         [] pc[c] = "L68" -> <<GetPort(h, l.current_unit, "up"), GetPort(h, l.last_unit, "down")>>
         [] pc[c] = "L74" -> <<GetPort(h, down, "up"), GetPort(h, l.last_unit, "down")>>
         [] OTHER -> <<>>

---------------------------------------------------------------------------
RECURSIVE ReachesRoot(_, _, _)
\* Following parent from f ends at a fragment without parent within n steps.
ReachesRoot(h, f, n) ==
    IF h.parent[f] = None THEN TRUE
    ELSE IF n = 0 THEN FALSE
    ELSE ReachesRoot(h, h.parent[f], n - 1)

\* How many times f is listed as a child, over all fragments.
Owners(h, f) ==
    {<<p, j>> \in UNION {{<<p, j>> : j \in DOMAIN h.children[p]} : p \in DOMAIN h.kind} :
        h.children[p][j] = f}

---------------------------------------------------------------------------
\* The anchor particle of the port label of fragment f.
Anchor(h, f, label) ==
    h.ports[CHOOSE i \in FragPort(h, f, label) : TRUE].anchor

\* The j-th fusion of the recipe for chain length N, over the fragments in
\* the order the constructor creates them: unit k is the k-th CH2, the caps
\* are the first and the second cap fragment.
ExpectedFusion(h, j, N, capkind) ==
    IF j = 1
    THEN [a |-> NthOfKind(h, 0, "H"), aport |-> "up",
          b |-> NthOfKind(h, 0, "CH2"), bport |-> "up"]
    ELSE IF j <= N
    THEN [a |-> NthOfKind(h, j - 1, "CH2"), aport |-> "up",
          b |-> NthOfKind(h, j - 2, "CH2"), bport |-> "down"]
    ELSE [a |-> NthOfKind(h, IF capkind = "H" THEN 1 ELSE 0, capkind), aport |-> "up",
          b |-> NthOfKind(h, N - 1, "CH2"), bport |-> "down"]

FusionsFollowRecipe(c, capkind) ==
    LET h == heap[c]
        N == chain_length[c]
        F == Fusions(h)
    IN /\ Len(F) <= N + 1
       /\ \A j \in DOMAIN F :
             LET x == ExpectedFusion(h, j, N, capkind)
             IN /\ F[j].a = x.a /\ F[j].aport = x.aport
                /\ F[j].b = x.b /\ F[j].bport = x.bport
       /\ pc[c] # "raised"
       /\ Finished(c) => Len(F) = N + 1

\* The bonds of the linear path cap, unit 0, ..., unit N-1, cap.
PathBonds(h, self, N) ==
    {{Anchor(h, Child(h, self, "up-cap", -1), "up"),
      Anchor(h, Child(h, self, "ch2", 0), "up")}}
    \cup {{Anchor(h, Child(h, self, "ch2", k), "up"),
           Anchor(h, Child(h, self, "ch2", k - 1), "down")} : k \in 1..(N - 1)}
    \cup {{Anchor(h, Child(h, self, "down-cap", -1), "up"),
           Anchor(h, Child(h, self, "ch2", N - 1), "down")}}

\* C7: for chain length N >= 1 the Alkane constructor performs exactly N + 1
\* fusions, in this order: the up-cap's 'up' with unit 0's 'up', then for
\* k = 1..N-1 unit k's 'up' with unit k-1's 'down', then the down-cap's 'up'
\* with unit N-1's 'down'; their bonds form the one path cap, unit 0, ...,
\* unit N-1, cap.
C7_FusionOrder ==
    Valid("Alkane") =>
        LET h == heap["Alkane"]
            self == loc["Alkane"].self
            N == chain_length["Alkane"]
        IN /\ FusionsFollowRecipe("Alkane", "H")
           /\ Cardinality(h.bonds) = Len(Fusions(h))
           /\ Finished("Alkane") =>
                 /\ \A k \in 0..(N - 1) :
                       Child(h, self, "ch2", k) = NthOfKind(h, k, "CH2")
                 /\ Child(h, self, "up-cap", -1) = NthOfKind(h, 0, "H")
                 /\ Child(h, self, "down-cap", -1) = NthOfKind(h, 1, "H")
                 /\ h.bonds = PathBonds(h, self, N)
                 /\ Cardinality(h.bonds) = N + 1
                 /\ \A k \in 0..(N - 1) :
                       h.elem[Anchor(h, Child(h, self, "ch2", k), "up")] = "C"

\* methane-like N = 1: the loop has run zero times and both caps are fused
\* to the single unit
C7_Witness ==
    /\ Finished("Alkane")
    /\ chain_length["Alkane"] = 1
    /\ loc["Alkane"].i = 0
    /\ Len(Fusions(heap["Alkane"])) = 2
    /\ Fusions(heap["Alkane"])[1].b = Fusions(heap["Alkane"])[2].b

---------------------------------------------------------------------------
\* C8: every add with the label 'ch2[$]' resolves to a label not yet in the
\* assembly: the chain units get the indices 0, 1, 2, ... in the order they
\* are added (N of them, 0..N-1, when the constructor returns), 'up-cap' and
\* 'down-cap' are each used once, and no add fails with DuplicateLabelError.
C8_LabelsDistinct ==
    \A c \in Classes :
        Valid(c) =>
            LET h == heap[c]
                self == loc[c].self
                N == chain_length[c]
                units == SelectSeq(h.labels, LAMBDA e : e.base = "ch2")
            IN /\ \A i, j \in DOMAIN h.labels :
                     (h.labels[i].base = h.labels[j].base
                        /\ h.labels[i].idx = h.labels[j].idx) => i = j
               /\ \A k \in DOMAIN units :
                     /\ units[k].idx = k - 1
                     /\ units[k].child = NthOfKind(h, k - 1, "CH2")
               /\ Len(units) <= N
               /\ h.err # "DuplicateLabelError"
               /\ \A j \in DOMAIN Adds(h) :
                     Child(h, self, Adds(h)[j].base, Adds(h)[j].idx) = Adds(h)[j].a
               /\ Finished(c) =>
                     /\ Len(units) = N
                     /\ Cardinality(Labelled(h, self, "up-cap")) = 1
                     /\ Cardinality(Labelled(h, self, "down-cap")) = 1
                     /\ Len(h.labels) = N + 2

C8_Witness ==
    /\ Finished("CMIM")
    /\ chain_length["CMIM"] = 4
    /\ Child(heap["CMIM"], loc["CMIM"].self, "ch2", 3) = NthOfKind(heap["CMIM"], 3, "CH2")
    /\ Child(heap["CMIM"], loc["CMIM"].self, "ch2", 3) # None

---------------------------------------------------------------------------
\* The fragment the statement about to run hands to force_overlap as move_this.
MoveThis(c) ==
    CASE pc[c] = "L61" -> loc[c].hydrogen
      [] pc[c] = "L68" -> loc[c].current_unit
      [] pc[c] = "L74" -> IF c = "CMIM" THEN loc[c].imidazole ELSE loc[c].hydrogen
      [] OTHER -> None

\* The particles of the fragments already added to the assembly.
AddedParticles(c) ==
    IF loc[c].self = None THEN {}
    ELSE {p \in DOMAIN heap[c].pos :
             heap[c].powner[p] \in Subtree(heap[c], loc[c].self)}

---------------------------------------------------------------------------
\* The particles of fragment f in the order they were put into it: f[k] is
\* OwnParticles(h, f, 1)[k + 1].
Indexed(h, f, k) == OwnParticles(h, f, 1)[k + 1]

\* C10: for the same chain length N >= 1 the CMIM constructor performs the
\* same sequence of force_overlap and add calls, on the same ports and with
\* the same labels, as the Alkane constructor, except that the fragment
\* fused last and added as 'down-cap' is an Imidazole, whose one port 'up'
\* is anchored on its particle of index 3, where Alkane has a hydrogen; both
\* assemblies have N chain units and two caps and no available port.
C10_CMIMFollowsAlkane ==
    (/\ Finished("Alkane") /\ Finished("CMIM")
     /\ chain_length["Alkane"] = chain_length["CMIM"] /\ Valid("CMIM")) =>
        LET A == heap["Alkane"]
            B == heap["CMIM"]
            N == chain_length["CMIM"]
            last == Len(B.kind)
            units(h) == {f \in DOMAIN h.kind : h.kind[f] = "CH2" /\ h.parent[f] = 1}
        IN /\ A.log = B.log
           /\ Len(A.kind) = Len(B.kind)
           /\ \A f \in 2..(last - 1) : A.kind[f] = B.kind[f]
           /\ A.kind[last] = "H" /\ B.kind[last] = "Imidazole"
           /\ B.log[Len(B.log)] = AddEntry(loc["CMIM"].self, last, "down-cap", -1)
           /\ B.log[Len(B.log) - 1].a = last
           /\ B.log[Len(B.log) - 1].b = NthOfKind(B, N - 1, "CH2")
           /\ B.log[Len(B.log) - 1].bport = "down"
           /\ Cardinality(FragPort(B, last, "up")) = 1
           /\ {B.ports[i].label : i \in {j \in DOMAIN B.ports : B.ports[j].frag = last}} = {"up"}
           /\ Anchor(B, last, "up") = Indexed(B, last, 3)
           /\ Cardinality(units(A)) = N /\ Cardinality(units(B)) = N
           /\ Len(A.children[1]) = N + 2 /\ Len(B.children[1]) = N + 2
           /\ \A i \in DOMAIN A.ports : ~A.ports[i].avail
           /\ \A i \in DOMAIN B.ports : ~B.ports[i].avail

\* bmim = CMIM(chain_length=4) next to an Alkane of the same length
C10_Witness ==
    /\ Finished("Alkane") /\ Finished("CMIM")
    /\ chain_length["Alkane"] = 4 /\ chain_length["CMIM"] = 4
    /\ heap["CMIM"].kind[Len(heap["CMIM"].kind)] = "Imidazole"
    /\ Len(heap["CMIM"].log) = Len(heap["Alkane"].log)

====
